---- MODULE Spec2Model ----
(***************************************************************************)
(* A model of data/collect/data_centralize.py: the link filter, the slug   *)
(* parser, the keyword extractor, the language resolver, the feedback      *)
(* score extractor and the sequential main loop.                           *)
(*                                                                         *)
(* A Python str is modelled as a sequence of one-character strings, so     *)
(* that substring tests, splits, strips, case conversion and comparison    *)
(* are computed character by character as Python computes them.            *)
(***************************************************************************)
EXTENDS Integers, Sequences, FiniteSets, TLC

VARIABLES
    \* main()
    pc, raw, links, idx, rows_out, log, output,
    \* filter_links()
    f_pc, f_urls, f_out,
    \* extract_outcome_and_scores()
    fb_pc, fb_section, fb_rows, fb_i, outcome, scores,
    \* extract_jsonld_keywords()
    kw_pc, kw_blocks, kw_out,
    \* parse_slug()
    slug_pc, slug_company, slug_alias, slug_topic, slug_tail, slug_out,
    \* extract_language()
    l_pc, l_summary, l_title, l_url, l_out

mainVars == <<pc, raw, links, idx, rows_out, log, output>>
filterVars == <<f_pc, f_urls, f_out>>
scoreVars == <<fb_pc, fb_section, fb_rows, fb_i, outcome, scores>>
kwVars == <<kw_pc, kw_blocks, kw_out>>
slugVars == <<slug_pc, slug_company, slug_alias, slug_topic, slug_tail, slug_out>>
langVars == <<l_pc, l_summary, l_title, l_url, l_out>>
vars == <<mainVars, filterVars, scoreVars, kwVars, slugVars, langVars>>

----------------------------------------------------------------------------
(* Bounds of the model. *)

\* longest raw link list read by main()
MaxRaw == 3
\* longest URL list handed to filter_links()
MaxUrls == 3
\* most feedback rows on a page
MaxRows == 2
\* most ld+json blocks on a page
MaxBlocks == 2
\* most topic tokens of a slug
MaxTopic == 2

----------------------------------------------------------------------------
(* Python str operations, on sequences of characters. *)

UpperCase == <<"A", "B", "C", "D", "E", "F", "G", "H", "I", "J", "K", "L", "M", "N", "O", "P", "Q", "R", "S", "T", "U", "V", "W", "X", "Y", "Z">>
LowerCase == <<"a", "b", "c", "d", "e", "f", "g", "h", "i", "j", "k", "l", "m", "n", "o", "p", "q", "r", "s", "t", "u", "v", "w", "x", "y", "z">>
Digits == <<"0", "1", "2", "3", "4", "5", "6", "7", "8", "9">>
\* the characters of the model in code-point order
Ascii == <<"\t", "\n", " ", "#", "+", ",", "-", ".", "/">> \o Digits \o <<":", "=", "?">> \o UpperCase \o <<"_">> \o LowerCase

Range(s) == {s[i] : i \in 1..Len(s)}

Whitespace == {" ", "\t", "\n"}

IsUpper(c) == c \in Range(UpperCase)
IsLower(c) == c \in Range(LowerCase)
IsLetter(c) == IsUpper(c) \/ IsLower(c)

Ord(c) == CHOOSE i \in 1..Len(Ascii) : Ascii[i] = c

Lower(c) == IF IsUpper(c) THEN LowerCase[CHOOSE i \in 1..Len(UpperCase) : UpperCase[i] = c] ELSE c
Upper(c) == IF IsLower(c) THEN UpperCase[CHOOSE i \in 1..Len(LowerCase) : LowerCase[i] = c] ELSE c

\* s.lower(), s.upper(), s.title()
LowerStr(s) == [i \in 1..Len(s) |-> Lower(s[i])]
UpperStr(s) == [i \in 1..Len(s) |-> Upper(s[i])]
TitleStr(s) ==
    [i \in 1..Len(s) |->
        IF IsLetter(s[i])
        THEN IF i > 1 /\ IsLetter(s[i - 1]) THEN Lower(s[i]) ELSE Upper(s[i])
        ELSE s[i]]

\* sub in s
Contains(s, sub) ==
    \E i \in 0..(Len(s) - Len(sub)) : \A k \in 1..Len(sub) : s[i + k] = sub[k]

\* s.startswith(p)
StartsWith(s, p) == Len(p) <= Len(s) /\ \A k \in 1..Len(p) : s[k] = p[k]

\* s.find(sub) + 1: the first position of sub in s, 0 when absent
FindSub(s, sub) ==
    IF Contains(s, sub)
    THEN CHOOSE i \in 1..(Len(s) - Len(sub) + 1) :
            /\ \A k \in 1..Len(sub) : s[i + k - 1] = sub[k]
            /\ \A j \in 1..(i - 1) : \E k \in 1..Len(sub) : s[j + k - 1] # sub[k]
    ELSE 0

\* s.rstrip(c), s.lstrip(c) for one character c
RECURSIVE RStripChar(_, _)
RStripChar(s, c) ==
    IF Len(s) > 0 /\ s[Len(s)] = c THEN RStripChar(SubSeq(s, 1, Len(s) - 1), c) ELSE s

\* s.strip(): leading and trailing whitespace removed
RECURSIVE Strip(_)
Strip(s) ==
    IF Len(s) > 0 /\ s[1] \in Whitespace THEN Strip(Tail(s))
    ELSE IF Len(s) > 0 /\ s[Len(s)] \in Whitespace THEN Strip(SubSeq(s, 1, Len(s) - 1))
    ELSE s

\* s.split(sep) for a non-empty separator
RECURSIVE Split(_, _)
Split(s, sep) ==
    LET i == FindSub(s, sep)
    IN  IF i = 0 THEN <<s>>
        ELSE <<SubSeq(s, 1, i - 1)>> \o Split(SubSeq(s, i + Len(sep), Len(s)), sep)

\* s.split(): the maximal runs of non-whitespace characters
RECURSIVE SplitWS(_)
SplitWS(s) ==
    IF Len(s) = 0 THEN <<>>
    ELSE IF s[1] \in Whitespace THEN SplitWS(Tail(s))
    ELSE LET ends == {i \in 1..Len(s) : s[i] \in Whitespace}
             stop == IF ends = {} THEN Len(s) + 1
                     ELSE CHOOSE i \in ends : \A j \in ends : i <= j
         IN  <<SubSeq(s, 1, stop - 1)>> \o SplitWS(SubSeq(s, stop, Len(s)))

\* sep.join(parts)
RECURSIVE Join(_, _)
Join(parts, sep) ==
    IF Len(parts) = 0 THEN <<>>
    ELSE IF Len(parts) = 1 THEN parts[1]
    ELSE parts[1] \o sep \o Join(Tail(parts), sep)

\* s.replace(old, new) for a non-empty old
RECURSIVE Replace(_, _, _)
Replace(s, old, new) ==
    LET i == FindSub(s, old)
    IN  IF i = 0 THEN s
        ELSE SubSeq(s, 1, i - 1) \o new \o Replace(SubSeq(s, i + Len(old), Len(s)), old, new)

\* a < b on str: lexicographic by code point
LexLess(a, b) ==
    \/ Len(a) < Len(b) /\ \A k \in 1..Len(a) : a[k] = b[k]
    \/ \E i \in 1..(IF Len(a) < Len(b) THEN Len(a) ELSE Len(b)) :
          /\ \A k \in 1..(i - 1) : a[k] = b[k]
          /\ Ord(a[i]) < Ord(b[i])

\* sorted(S) of a set of str
RECURSIVE sorted(_)
sorted(S) ==
    IF S = {} THEN <<>>
    ELSE LET m == CHOOSE x \in S : \A y \in S \ {x} : LexLess(x, y)
         IN  <<m>> \o sorted(S \ {m})

\* the sequences over S of length at most n
SeqsUpTo(S, n) == UNION {[1..k -> S] : k \in 0..n}

----------------------------------------------------------------------------
(* urlparse(url).path: the scheme, the network location, the fragment and  *)
(* the query are cut off, in that order.                                   *)

SchemeChars == Range(UpperCase) \cup Range(LowerCase) \cup Range(Digits) \cup {"+", "-", "."}

AfterScheme(url) ==
    LET i == FindSub(url, <<":">>)
    IN  IF i > 1 /\ IsLetter(url[1]) /\ \A k \in 1..(i - 1) : url[k] \in SchemeChars
        THEN SubSeq(url, i + 1, Len(url))
        ELSE url

AfterNetloc(u) ==
    IF Len(u) >= 2 /\ u[1] = "/" /\ u[2] = "/"
    THEN LET ds == {i \in 3..Len(u) : u[i] \in {"/", "?", "#"}}
         IN  IF ds = {} THEN <<>>
             ELSE SubSeq(u, CHOOSE i \in ds : \A j \in ds : i <= j, Len(u))
    ELSE u

BeforeChar(u, c) ==
    LET i == FindSub(u, <<c>>)
    IN  IF i = 0 THEN u ELSE SubSeq(u, 1, i - 1)

UrlPath(url) == BeforeChar(BeforeChar(AfterNetloc(AfterScheme(url)), "#"), "?")

----------------------------------------------------------------------------
(* filter_links *)

Str_mocks == <<"m", "o", "c", "k", "s">>
Str_system_design == <<"s", "y", "s", "t", "e", "m", "-", "d", "e", "s", "i", "g", "n">>
Str_behavioral == <<"b", "e", "h", "a", "v", "i", "o", "r", "a", "l">>
Path_mocks == <<"/", "m", "o", "c", "k", "s">>
Path_mocks_slash == <<"/", "m", "o", "c", "k", "s", "/">>

\* the body of the loop of filter_links: TRUE when the URL reaches valid.add(url)
FilterKeeps_NoBehavioral(url) ==
    IF Len(url) = 0 THEN FALSE
    ELSE IF ~Contains(url, Str_mocks) THEN FALSE
    ELSE IF Contains(url, Str_system_design) THEN FALSE
    ELSE LET path == RStripChar(UrlPath(url), "/")
         IN  IF path = Path_mocks THEN FALSE
             ELSE IF ~StartsWith(path, Path_mocks_slash) THEN FALSE
             ELSE IF Len(Split(path, <<"/">>)) < 3 THEN FALSE
             ELSE TRUE

FilterKeeps(url) ==
    IF Len(url) = 0 THEN FALSE
    ELSE IF ~Contains(url, Str_mocks) THEN FALSE
    ELSE IF Contains(url, Str_system_design) \/ Contains(url, Str_behavioral) THEN FALSE
    ELSE LET path == RStripChar(UrlPath(url), "/")
         IN  IF path = Path_mocks THEN FALSE
             ELSE IF ~StartsWith(path, Path_mocks_slash) THEN FALSE
             ELSE IF Len(Split(path, <<"/">>)) < 3 THEN FALSE
             ELSE TRUE

RECURSIVE FilterLoop(_, _, _)
FilterLoop(urls, i, valid) ==
    IF i > Len(urls) THEN valid
    ELSE FilterLoop(urls, i + 1, IF FilterKeeps(urls[i]) THEN valid \cup {urls[i]} ELSE valid)

filter_links(urls) == sorted(FilterLoop(urls, 1, {}))

\* candidate raw URLs
Url_empty == <<>>
Url_about == <<"h", "t", "t", "p", "s", ":", "/", "/", "x", "/", "a", "b", "o", "u", "t">>
Url_index == <<"h", "t", "t", "p", "s", ":", "/", "/", "x", "/", "m", "o", "c", "k", "s">>
Url_index_slash == <<"h", "t", "t", "p", "s", ":", "/", "/", "x", "/", "m", "o", "c", "k", "s", "/">>
Url_abc_def == <<"h", "t", "t", "p", "s", ":", "/", "/", "x", "/", "m", "o", "c", "k", "s", "/", "a", "b", "c", "-", "d", "e", "f">>
Url_abc_def_slash == <<"h", "t", "t", "p", "s", ":", "/", "/", "x", "/", "m", "o", "c", "k", "s", "/", "a", "b", "c", "-", "d", "e", "f", "/">>
Url_system_design == <<"h", "t", "t", "p", "s", ":", "/", "/", "x", "/", "m", "o", "c", "k", "s", "/", "s", "y", "s", "t", "e", "m", "-", "d", "e", "s", "i", "g", "n", "/", "x", "y", "z">>
Url_behavioral == <<"h", "t", "t", "p", "s", ":", "/", "/", "x", "/", "m", "o", "c", "k", "s", "/", "b", "e", "h", "a", "v", "i", "o", "r", "a", "l", "-", "q">>
Url_nested == <<"h", "t", "t", "p", "s", ":", "/", "/", "x", "/", "a", "/", "m", "o", "c", "k", "s", "/", "b">>
Url_host_mocks == <<"h", "t", "t", "p", "s", ":", "/", "/", "m", "o", "c", "k", "s", ".", "i", "o", "/", "a">>
Url_upper == <<"h", "t", "t", "p", "s", ":", "/", "/", "x", "/", "m", "o", "c", "k", "s", "/", "B">>
Url_relative == <<"/", "m", "o", "c", "k", "s", "/", "a">>
Url_no_slash == <<"m", "o", "c", "k", "s", "/", "a">>
Url_query_behavioral == <<"h", "t", "t", "p", "s", ":", "/", "/", "x", "/", "m", "o", "c", "k", "s", "/", "a", "?", "q", "=", "b", "e", "h", "a", "v", "i", "o", "r", "a", "l">>
Url_query_mocks == <<"h", "t", "t", "p", "s", ":", "/", "/", "x", "/", "a", "?", "/", "m", "o", "c", "k", "s", "/", "b">>
Url_fragment == <<"h", "t", "t", "p", "s", ":", "/", "/", "x", "/", "m", "o", "c", "k", "s", "/", "a", "#", "t", "o", "p">>
Url_mocksy == <<"h", "t", "t", "p", "s", ":", "/", "/", "x", "/", "m", "o", "c", "k", "s", "y", "/", "a">>

FilterUrls ==
    { Url_empty, Url_about, Url_index, Url_index_slash, Url_abc_def, Url_abc_def_slash,
      Url_system_design, Url_behavioral, Url_nested, Url_host_mocks, Url_upper,
      Url_relative, Url_no_slash, Url_query_behavioral, Url_query_mocks, Url_fragment,
      Url_mocksy }

FilterIdle == f_pc = "idle" /\ f_urls = <<>> /\ f_out = <<>>

FilterInit ==
    /\ f_pc = "call"
    /\ f_urls \in SeqsUpTo(FilterUrls, MaxUrls)
    /\ f_out = <<>>

FilterLinks ==
    /\ f_pc = "call"
    /\ f_out' = filter_links(f_urls)
    /\ f_pc' = "done"
    /\ UNCHANGED <<f_urls, mainVars, scoreVars, kwVars, slugVars, langVars>>

----------------------------------------------------------------------------
(* main: the sequential pipeline.  raw is what pull_mock_links returned;    *)
(* log records, in order, every fetch, every parse and every pause.        *)

MainUrls == {Url_index, Url_abc_def, Url_upper, Url_relative}

Event(ev, url) == [ev |-> ev, url |-> url]

MainIdle ==
    /\ pc = "idle" /\ raw = <<>> /\ links = <<>> /\ idx = 0
    /\ rows_out = <<>> /\ log = <<>> /\ output = [written |-> FALSE, rows |-> <<>>]

MainInit ==
    /\ pc = "start"
    /\ raw \in SeqsUpTo(MainUrls, MaxRaw)
    /\ links = <<>>
    /\ idx = 0
    /\ rows_out = <<>>
    /\ log = <<>>
    /\ output = [written |-> FALSE, rows |-> <<>>]

\* Main_Start without the raise on an empty link list
Main_Start_NoRaise ==
    /\ pc = "start"
    /\ links' = filter_links(raw)
    /\ pc' = "fetch"
    /\ idx' = 1
    /\ rows_out' = <<>>
    /\ UNCHANGED <<raw, log, output, filterVars, scoreVars, kwVars, slugVars, langVars>>

\* links = filter_links(pull_mock_links()); raise RuntimeError when empty
Main_Start ==
    /\ pc = "start"
    /\ links' = filter_links(raw)
    /\ IF links' = <<>>
       THEN pc' = "aborted" /\ UNCHANGED <<idx, rows_out>>
       ELSE pc' = "fetch" /\ idx' = 1 /\ rows_out' = <<>>
    /\ UNCHANGED <<raw, log, output, filterVars, scoreVars, kwVars, slugVars, langVars>>

\* fetch_soup(url) raises requests.RequestException: logged, next URL
Main_FetchFail ==
    /\ pc = "fetch"
    /\ idx <= Len(links)
    /\ log' = Append(log, Event("fetch_fail", links[idx]))
    /\ idx' = idx + 1
    /\ UNCHANGED <<pc, raw, links, rows_out, output, filterVars, scoreVars, kwVars, slugVars, langVars>>

\* fetch_soup(url) returns the page
Main_FetchOk ==
    /\ pc = "fetch"
    /\ idx <= Len(links)
    /\ log' = Append(log, Event("fetch_ok", links[idx]))
    /\ pc' = "parse"
    /\ UNCHANGED <<raw, links, idx, rows_out, output, filterVars, scoreVars, kwVars, slugVars, langVars>>

\* the extractors return: the row is appended, then time.sleep
Main_ParseOk ==
    /\ pc = "parse"
    /\ rows_out' = Append(rows_out, [source_url |-> links[idx]])
    /\ log' = log \o <<Event("parse_ok", links[idx]), Event("sleep", links[idx])>>
    /\ idx' = idx + 1
    /\ pc' = "fetch"
    /\ UNCHANGED <<raw, links, output, filterVars, scoreVars, kwVars, slugVars, langVars>>

\* Main_ParseFail with the exception escaping the loop
Main_ParseFail_Escapes ==
    /\ pc = "parse"
    /\ log' = Append(log, Event("parse_fail", links[idx]))
    /\ pc' = "aborted"
    /\ UNCHANGED <<raw, links, idx, rows_out, output, filterVars, scoreVars, kwVars, slugVars, langVars>>

\* an extractor raises: caught by except Exception, logged, next URL
Main_ParseFail ==
    /\ pc = "parse"
    /\ log' = Append(log, Event("parse_fail", links[idx]))
    /\ idx' = idx + 1
    /\ pc' = "fetch"
    /\ UNCHANGED <<raw, links, rows_out, output, filterVars, scoreVars, kwVars, slugVars, langVars>>

\* the loop is over: the rows are written to the output table
Main_Write ==
    /\ pc = "fetch"
    /\ idx > Len(links)
    /\ output' = [written |-> TRUE, rows |-> rows_out]
    /\ pc' = "done"
    /\ UNCHANGED <<raw, links, idx, rows_out, log, filterVars, scoreVars, kwVars, slugVars, langVars>>

----------------------------------------------------------------------------
(* clean_text, normalize *)

clean_text(s) == Strip(Join(SplitWS(s), <<" ">>))
normalize(s) == LowerStr(clean_text(s))

----------------------------------------------------------------------------
(* extract_outcome_and_scores.  A feedback row is the number of div        *)
(* elements found in it and the text of the first and of the last of them. *)

SCORE_COLS ==
    { "score_excited_to_work_with_them", "score_questions_quality",
      "score_interviewer_helpfulness", "score_problem_solving",
      "score_technical_skills", "score_communication" }

Str_advance == <<"a", "d", "v", "a", "n", "c", "e", " ", "t", "h", "i", "s", " ", "p", "e", "r", "s", "o", "n", " ", "t", "o", " ", "t", "h", "e", " ", "n", "e", "x", "t", " ", "r", "o", "u", "n", "d">>
Str_slash4 == <<"/", "4">>
Str_excited == <<"e", "x", "c", "i", "t", "e", "d">>
Str_good_questions == <<"g", "o", "o", "d", " ", "w", "e", "r", "e", " ", "t", "h", "e", " ", "q", "u", "e", "s", "t", "i", "o", "n", "s">>
Str_helpful == <<"h", "e", "l", "p", "f", "u", "l", " ", "w", "a", "s", " ", "y", "o", "u", "r", " ", "i", "n", "t", "e", "r", "v", "i", "e", "w", "e", "r">>
Str_problem_solving == <<"p", "r", "o", "b", "l", "e", "m", " ", "s", "o", "l", "v", "i", "n", "g">>
Str_technical_skills == <<"t", "e", "c", "h", "n", "i", "c", "a", "l", " ", "s", "k", "i", "l", "l", "s">>
Str_communication == <<"c", "o", "m", "m", "u", "n", "i", "c", "a", "t", "i", "o", "n">>

FeedbackRow(n, first, last) == [ndivs |-> n, first |-> first, last |-> last]

\* the if/elif chain over the label: the slot to fill, "" when no phrase matches
ScoreSlot(label) ==
    IF Contains(label, Str_excited) THEN "score_excited_to_work_with_them"
    ELSE IF Contains(label, Str_good_questions) THEN "score_questions_quality"
    ELSE IF Contains(label, Str_helpful) THEN "score_interviewer_helpfulness"
    ELSE IF Contains(label, Str_problem_solving) THEN "score_problem_solving"
    ELSE IF Contains(label, Str_technical_skills) THEN "score_technical_skills"
    ELSE IF Contains(label, Str_communication) THEN "score_communication"
    ELSE ""

\* RowStep that keeps the first value written to an output
RowStep_FirstWins(st, r) ==
    IF r.ndivs < 2 THEN st
    ELSE LET label == normalize(r.first)
             value == clean_text(r.last)
             slot == IF Contains(value, Str_slash4) THEN ScoreSlot(label) ELSE ""
         IN  [outcome |-> IF Contains(label, Str_advance) /\ st.outcome = <<>>
                          THEN value ELSE st.outcome,
              scores |-> IF slot # "" /\ st.scores[slot] = <<>>
                         THEN [st.scores EXCEPT ![slot] = value] ELSE st.scores]

\* the body of the loop over the rows: st is (outcome, scores) before the row
RowStep(st, r) ==
    IF r.ndivs < 2 THEN st
    ELSE LET label == normalize(r.first)
             value == clean_text(r.last)
             slot == IF Contains(value, Str_slash4) THEN ScoreSlot(label) ELSE ""
         IN  [outcome |-> IF Contains(label, Str_advance) THEN value ELSE st.outcome,
              scores |-> IF slot # "" THEN [st.scores EXCEPT ![slot] = value] ELSE st.scores]

NoScores == [outcome |-> <<>>, scores |-> [c \in SCORE_COLS |-> <<>>]]

RECURSIVE RowLoop(_, _, _)
RowLoop(st, rows, i) ==
    IF i > Len(rows) THEN st ELSE RowLoop(RowStep(st, rows[i]), rows, i + 1)

\* the function on a page whose feedback section holds these rows
extract_outcome_and_scores(rows) == RowLoop(NoScores, rows, 1)

Row_excited == FeedbackRow(2, <<"H", "o", "w", " ", "e", "x", "c", "i", "t", "e", "d", " ", "w", "o", "u", "l", "d", " ", "y", "o", "u", " ", "b", "e", " ", "t", "o", " ", "w", "o", "r", "k", " ", "w", "i", "t", "h", " ", "t", "h", "e", "m", "?">>, <<"4", "/", "4">>)
Row_questions_3 == FeedbackRow(2, <<"H", "o", "w", " ", "g", "o", "o", "d", " ", "w", "e", "r", "e", " ", "t", "h", "e", " ", "q", "u", "e", "s", "t", "i", "o", "n", "s", "?">>, <<"3", "/", "4">>)
Row_questions_2 == FeedbackRow(3, <<"H", "o", "w", " ", "g", "o", "o", "d", " ", " ", "w", "e", "r", "e", " ", "t", "h", "e", "\n", "q", "u", "e", "s", "t", "i", "o", "n", "s", "?">>, <<"2", "/", "4">>)
Row_helpful == FeedbackRow(2, <<"H", "o", "w", " ", "h", "e", "l", "p", "f", "u", "l", " ", "w", "a", "s", " ", "y", "o", "u", "r", " ", "i", "n", "t", "e", "r", "v", "i", "e", "w", "e", "r", "?">>, <<"4", "/", "4">>)
Row_problem_technical == FeedbackRow(2, <<"P", "r", "o", "b", "l", "e", "m", " ", "s", "o", "l", "v", "i", "n", "g", " ", "a", "n", "d", " ", "t", "e", "c", "h", "n", "i", "c", "a", "l", " ", "s", "k", "i", "l", "l", "s">>, <<"1", "/", "4">>)
Row_technical == FeedbackRow(2, <<"T", "e", "c", "h", "n", "i", "c", "a", "l", " ", "s", "k", "i", "l", "l", "s">>, <<"3", "/", "4">>)
Row_communication == FeedbackRow(2, <<"C", "o", "m", "m", "u", "n", "i", "c", "a", "t", "i", "o", "n">>, <<" ", "2", "/", "4", " ">>)
Row_communication_same == FeedbackRow(2, <<"T", "h", "e", "i", "r", " ", "c", "o", "m", "m", "u", "n", "i", "c", "a", "t", "i", "o", "n">>, <<"2", "/", "4">>)
Row_communication_na == FeedbackRow(2, <<"C", "o", "m", "m", "u", "n", "i", "c", "a", "t", "i", "o", "n">>, <<"n", "/", "a">>)
Row_advance_yes == FeedbackRow(2, <<"W", "o", "u", "l", "d", " ", "y", "o", "u", " ", "a", "d", "v", "a", "n", "c", "e", " ", "t", "h", "i", "s", " ", "p", "e", "r", "s", "o", "n", " ", "t", "o", " ", "t", "h", "e", " ", "n", "e", "x", "t", " ", "r", "o", "u", "n", "d", "?">>, <<"Y", "e", "s">>)
Row_advance_no == FeedbackRow(2, <<"W", "o", "u", "l", "d", " ", "y", "o", "u", " ", "a", "d", "v", "a", "n", "c", "e", " ", "t", "h", "i", "s", " ", "p", "e", "r", "s", "o", "n", " ", "t", "o", " ", "t", "h", "e", " ", "n", "e", "x", "t", " ", "r", "o", "u", "n", "d", "?">>, <<"N", "o">>)
Row_advance_excited == FeedbackRow(2, <<"E", "x", "c", "i", "t", "e", "d", " ", "t", "o", " ", "a", "d", "v", "a", "n", "c", "e", " ", "t", "h", "i", "s", " ", "p", "e", "r", "s", "o", "n", " ", "t", "o", " ", "t", "h", "e", " ", "n", "e", "x", "t", " ", "r", "o", "u", "n", "d", "?">>, <<"4", "/", "4">>)
Row_notes == FeedbackRow(2, <<"N", "o", "t", "e", "s">>, <<"3", "/", "4">>)
Row_single == FeedbackRow(1, <<"T", "e", "c", "h", "n", "i", "c", "a", "l", " ", "s", "k", "i", "l", "l", "s", " ", "4", "/", "4">>, <<"T", "e", "c", "h", "n", "i", "c", "a", "l", " ", "s", "k", "i", "l", "l", "s", " ", "4", "/", "4">>)

FeedbackRows ==
    { Row_excited, Row_questions_3, Row_questions_2, Row_helpful, Row_problem_technical,
      Row_technical, Row_communication, Row_communication_same, Row_communication_na,
      Row_advance_yes, Row_advance_no, Row_advance_excited, Row_notes, Row_single }

ScoreIdle ==
    /\ fb_pc = "idle" /\ fb_section = FALSE /\ fb_rows = <<>> /\ fb_i = 0
    /\ outcome = <<>> /\ scores = <<>>

ScoreInit ==
    /\ fb_pc = "call"
    /\ fb_section \in BOOLEAN
    /\ fb_rows \in SeqsUpTo(FeedbackRows, MaxRows)
    /\ fb_section = FALSE => fb_rows = <<>>
    /\ fb_i = 0
    /\ outcome = <<>>
    /\ scores = <<>>

\* the section lookup and the initial values; return at once without a section
Fb_Begin ==
    /\ fb_pc = "call"
    /\ outcome' = NoScores.outcome
    /\ scores' = NoScores.scores
    /\ IF fb_section THEN fb_pc' = "rows" /\ fb_i' = 1
                     ELSE fb_pc' = "done" /\ fb_i' = fb_i
    /\ UNCHANGED <<fb_section, fb_rows, mainVars, filterVars, kwVars, slugVars, langVars>>

\* one iteration of the loop over the rows
Fb_Row ==
    /\ fb_pc = "rows"
    /\ fb_i <= Len(fb_rows)
    /\ LET st == RowStep([outcome |-> outcome, scores |-> scores], fb_rows[fb_i])
       IN  outcome' = st.outcome /\ scores' = st.scores
    /\ fb_i' = fb_i + 1
    /\ UNCHANGED <<fb_pc, fb_section, fb_rows, mainVars, filterVars, kwVars, slugVars, langVars>>

\* return outcome, scores
Fb_Return ==
    /\ fb_pc = "rows"
    /\ fb_i > Len(fb_rows)
    /\ fb_pc' = "done"
    /\ UNCHANGED <<fb_section, fb_rows, fb_i, outcome, scores, mainVars, filterVars, kwVars, slugVars, langVars>>

----------------------------------------------------------------------------
(* extract_jsonld_keywords.  An ld+json block is what json.loads makes of  *)
(* its text: kind "invalid" (json.loads raises), "array" (a value without  *)
(* .get, so data.get raises) or "object"; an object's keywords field is    *)
(* "absent", "null", a "str", a "list" of str or a "number".               *)

Block(kind, type, str, items) == [kind |-> kind, type |-> type, str |-> str, items |-> items]

\* [k.strip() for k in xs if k.strip()]
StripAll(xs) ==
    LET kept == SelectSeq(xs, LAMBDA k : Strip(k) # <<>>)
    IN  [i \in 1..Len(kept) |-> Strip(kept[i])]

NoReturn == [returns |-> FALSE, value |-> <<>>]
Return(v) == [returns |-> TRUE, value |-> v]

\* one iteration of the loop over the script elements
BlockStep(b) ==
    IF b.kind = "invalid" THEN NoReturn
    ELSE IF b.kind = "array" THEN NoReturn
    ELSE IF b.type \in {"absent", "null"} THEN NoReturn
    ELSE IF b.type = "str" /\ b.str = <<>> THEN NoReturn
    ELSE IF b.type = "list" /\ b.items = <<>> THEN NoReturn
    ELSE IF b.type = "str" THEN Return(StripAll(Split(b.str, <<",">>)))
    ELSE IF b.type = "list" THEN Return(StripAll(b.items))
    ELSE NoReturn

RECURSIVE BlockLoop(_, _)
BlockLoop(blocks, i) ==
    IF i > Len(blocks) THEN <<>>
    ELSE IF BlockStep(blocks[i]).returns THEN BlockStep(blocks[i]).value
    ELSE BlockLoop(blocks, i + 1)

extract_jsonld_keywords(blocks) == BlockLoop(blocks, 1)

Block_invalid == Block("invalid", "absent", <<>>, <<>>)
Block_array == Block("array", "absent", <<>>, <<>>)
Block_no_keywords == Block("object", "absent", <<>>, <<>>)
Block_null == Block("object", "null", <<>>, <<>>)
Block_number == Block("object", "number", <<>>, <<>>)
Block_str_empty == Block("object", "str", <<>>, <<>>)
Block_str_blank == Block("object", "str", <<" ", ",", " ">>, <<>>)
Block_str == Block("object", "str", <<"p", "y", "t", "h", "o", "n", ",", " ", "G", "o", "o", "g", "l", "e", " ", ",", "t", "w", "o", " ", "s", "u", "m">>, <<>>)
Block_list_empty == Block("object", "list", <<>>, <<>>)
Block_list_blank == Block("object", "list", <<>>, <<<<" ">>, <<>>>>)
Block_list == Block("object", "list", <<>>, <<<<" ", "F", "A", "A", "N", "G">>, <<"g", "r", "a", "p", "h", "s">>>>)

LdJsonBlocks ==
    { Block_invalid, Block_array, Block_no_keywords, Block_null, Block_number,
      Block_str_empty, Block_str_blank, Block_str, Block_list_empty, Block_list_blank,
      Block_list }

KwIdle == kw_pc = "idle" /\ kw_blocks = <<>> /\ kw_out = <<>>

KwInit ==
    /\ kw_pc = "call"
    /\ kw_blocks \in SeqsUpTo(LdJsonBlocks, MaxBlocks)
    /\ kw_out = <<>>

ExtractKeywords ==
    /\ kw_pc = "call"
    /\ kw_out' = extract_jsonld_keywords(kw_blocks)
    /\ kw_pc' = "done"
    /\ UNCHANGED <<kw_blocks, mainVars, filterVars, scoreVars, slugVars, langVars>>

----------------------------------------------------------------------------
(* LANG_ALIASES, in the order of the dict literal *)

LANG_ALIASES ==
    << <<<<"c", "-", "p", "l", "u", "s", "-", "p", "l", "u", "s">>, <<"C", "+", "+">>>>,
       <<<<"c", "p", "l", "u", "s", "p", "l", "u", "s">>, <<"C", "+", "+">>>>,
       <<<<"c", "p", "p">>, <<"C", "+", "+">>>>,
       <<<<"p", "y", "t", "h", "o", "n">>, <<"P", "y", "t", "h", "o", "n">>>>,
       <<<<"j", "a", "v", "a">>, <<"J", "a", "v", "a">>>>,
       <<<<"g", "o">>, <<"G", "o">>>>,
       <<<<"g", "o", "l", "a", "n", "g">>, <<"G", "o">>>>,
       <<<<"j", "a", "v", "a", "s", "c", "r", "i", "p", "t">>, <<"J", "a", "v", "a", "S", "c", "r", "i", "p", "t">>>>,
       <<<<"t", "y", "p", "e", "s", "c", "r", "i", "p", "t">>, <<"T", "y", "p", "e", "S", "c", "r", "i", "p", "t">>>>,
       <<<<"c", "s", "h", "a", "r", "p">>, <<"C", "#">>>>,
       <<<<"c", "#">>, <<"C", "#">>>>,
       <<<<"r", "u", "b", "y">>, <<"R", "u", "b", "y">>>>,
       <<<<"s", "w", "i", "f", "t">>, <<"S", "w", "i", "f", "t">>>>,
       <<<<"k", "o", "t", "l", "i", "n">>, <<"K", "o", "t", "l", "i", "n">>>>,
       <<<<"r", "u", "s", "t">>, <<"R", "u", "s", "t">>>>,
       <<<<"p", "h", "p">>, <<"P", "H", "P">>>> >>

AliasKeys == {LANG_ALIASES[i][1] : i \in 1..Len(LANG_ALIASES)}

\* key in LANG_ALIASES
AliasHas(key) == key \in AliasKeys

\* LANG_ALIASES.get(key, "")
AliasGet(key) ==
    IF AliasHas(key)
    THEN LANG_ALIASES[CHOOSE i \in 1..Len(LANG_ALIASES) : LANG_ALIASES[i][1] = key][2]
    ELSE <<>>

----------------------------------------------------------------------------
(* parse_slug *)

Str_faang == <<"f", "a", "a", "n", "g">>

UrlSlug(url) ==
    LET segs == Split(RStripChar(UrlPath(url), "/"), <<"/">>)
    IN  segs[Len(segs)]

parse_slug(url) ==
    LET parts == Split(UrlSlug(url), <<"-">>)
        company_guess ==
            IF LowerStr(parts[1]) = Str_faang THEN UpperStr(parts[1]) ELSE TitleStr(parts[1])
        first_guess == IF Len(parts) >= 2 THEN AliasGet(LowerStr(parts[2])) ELSE <<>>
        joined == IF Len(parts) >= 3 THEN LowerStr(Join(SubSeq(parts, 2, 3), <<"-">>)) ELSE <<>>
        language_guess ==
            IF first_guess = <<>> /\ AliasHas(joined) THEN AliasGet(joined) ELSE first_guess
        topic_start == IF Len(parts) >= 3 /\ AliasHas(joined) THEN 3 ELSE 2
        rest == SelectSeq(SubSeq(parts, topic_start + 1, Len(parts)), LAMBDA p : p # <<>>)
        topic_guess == Replace(Strip(Join(rest, <<" ">>)), <<" ", " ">>, <<" ">>)
    IN  <<company_guess, language_guess, topic_guess>>

Url_mocks_prefix == <<"h", "t", "t", "p", "s", ":", "/", "/", "x", "/", "m", "o", "c", "k", "s", "/">>

\* the slug <company>-<alias>-<topic tokens> as an interview page URL
SlugUrl(company, alias, topic, tail) ==
    Url_mocks_prefix \o Join(<<company, alias>> \o topic, <<"-">>) \o tail

SlugCompanies == {<<"a", "i", "r", "b", "n", "b">>, <<"f", "a", "a", "n", "g">>, <<"A", "c", "m", "e">>}
\* "c#" is left out: "#" ends the path of a URL, so no slug contains it
SlugAliases == AliasKeys \ {<<"c", "#">>}
SlugTokens == {<<"a", "l", "i", "e", "n">>, <<"d", "i", "c", "t", "i", "o", "n", "a", "r", "y">>, <<"s", "u", "m">>}
SlugTails == {<<>>, <<"/">>}

SlugIdle ==
    /\ slug_pc = "idle" /\ slug_company = <<>> /\ slug_alias = <<>>
    /\ slug_topic = <<>> /\ slug_tail = <<>> /\ slug_out = <<>>

SlugInit ==
    /\ slug_pc = "call"
    /\ slug_company \in SlugCompanies
    /\ slug_alias \in SlugAliases
    /\ slug_topic \in SeqsUpTo(SlugTokens, MaxTopic) \ {<<>>}
    /\ slug_tail \in SlugTails
    /\ slug_out = <<>>

ParseSlug ==
    /\ slug_pc = "call"
    /\ slug_out' = parse_slug(SlugUrl(slug_company, slug_alias, slug_topic, slug_tail))
    /\ slug_pc' = "done"
    /\ UNCHANGED <<slug_company, slug_alias, slug_topic, slug_tail,
                   mainVars, filterVars, scoreVars, kwVars, langVars>>

----------------------------------------------------------------------------
(* extract_language.  summary_kv is a function from the labels it holds to *)
(* their values.  The canonical names are scanned in the iteration order   *)
(* of a Python set of str, which the interpreter's hash seed decides anew  *)
(* for every process: order is that order.                                 *)

Str_c_plus_plus == <<"c", " ", "p", "l", "u", "s", " ", "p", "l", "u", "s">>
Str_cpp_symbol == <<"c", "+", "+">>
Str_csharp_symbol == <<"c", "#">>
Str_interview == <<" ", "i", "n", "t", "e", "r", "v", "i", "e", "w">>

\* the scan of LANG_ALIASES.items() against the lowered summary value
RECURSIVE AliasScan(_, _, _)
AliasScan(v, val, i) ==
    IF i > Len(LANG_ALIASES) THEN val
    ELSE IF Contains(v, LANG_ALIASES[i][1]) \/ Contains(v, LowerStr(LANG_ALIASES[i][2]))
         THEN LANG_ALIASES[i][2]
         ELSE AliasScan(v, val, i + 1)

\* the scan of set(LANG_ALIASES.values()) against the title: <<>> when no name matches
RECURSIVE TitleScan(_, _, _)
TitleScan(title, order, i) ==
    IF i > Len(order) THEN <<>>
    ELSE IF \/ StartsWith(LowerStr(title), LowerStr(order[i]))
            \/ Contains(LowerStr(title), LowerStr(order[i]) \o Str_interview)
         THEN order[i]
         ELSE TitleScan(title, order, i + 1)

extract_language(summary_kv, interview_title, url, order) ==
    IF "language" \in DOMAIN summary_kv \/ "programming language" \in DOMAIN summary_kv
    THEN LET val == IF "language" \in DOMAIN summary_kv
                    THEN summary_kv["language"]
                    ELSE summary_kv["programming language"]
             v == Replace(Replace(LowerStr(val), Str_c_plus_plus, Str_cpp_symbol),
                          Str_csharp_symbol, Str_csharp_symbol)
         IN  AliasScan(v, val, 1)
    ELSE LET pretty == TitleScan(interview_title, order, 1)
         IN  IF pretty # <<>> THEN pretty ELSE parse_slug(url)[2]

\* the distinct canonical names, in the order of their first occurrence
RECURSIVE Distinct(_, _)
Distinct(names, i) ==
    IF i > Len(names) THEN <<>>
    ELSE IF \E j \in 1..(i - 1) : names[j] = names[i] THEN Distinct(names, i + 1)
    ELSE <<names[i]>> \o Distinct(names, i + 1)

CanonicalNames == Distinct([i \in 1..Len(LANG_ALIASES) |-> LANG_ALIASES[i][2]], 1)

\* iteration orders of the set: every rotation of the names, so that every name
\* comes before every other in some order
SetOrders ==
    { [i \in 1..Len(CanonicalNames) |->
          CanonicalNames[((i + k - 1) % Len(CanonicalNames)) + 1]] :
      k \in 0..(Len(CanonicalNames) - 1) }

LangKeys == {"language", "programming language"}
LangValues ==
    { <<"J", "a", "v", "a", "S", "c", "r", "i", "p", "t">>, <<"j", "a", "v", "a", "s", "c", "r", "i", "p", "t">>, <<"J", "a", "v", "a">>, <<"T", "y", "p", "e", "S", "c", "r", "i", "p", "t">>, <<"P", "y", "t", "h", "o", "n", " ", "3">>, <<"G", "O", "L", "A", "N", "G">>,
      <<"C", " ", "p", "l", "u", "s", " ", "p", "l", "u", "s">>, <<"c", "#">>, <<"H", "a", "s", "k", "e", "l", "l">> }
LangTitles ==
    { <<>>, <<"J", "a", "v", "a", "S", "c", "r", "i", "p", "t", " ", "I", "n", "t", "e", "r", "v", "i", "e", "w", " ", "w", "i", "t", "h", " ", "a", " ", "F", "A", "A", "N", "G", " ", "e", "n", "g", "i", "n", "e", "e", "r">>, <<"A", " ", "P", "y", "t", "h", "o", "n", " ", "i", "n", "t", "e", "r", "v", "i", "e", "w">>,
      <<"G", "o", " ", "I", "n", "t", "e", "r", "v", "i", "e", "w">>, <<"T", "w", "o", " ", "S", "u", "m">> }
LangUrls == { <<"h", "t", "t", "p", "s", ":", "/", "/", "x", "/", "m", "o", "c", "k", "s", "/", "f", "a", "a", "n", "g", "-", "c", "p", "l", "u", "s", "p", "l", "u", "s", "-", "t", "w", "o", "-", "s", "u", "m">>, <<"h", "t", "t", "p", "s", ":", "/", "/", "x", "/", "m", "o", "c", "k", "s", "/", "a", "c", "m", "e", "-", "s", "q", "l", "-", "j", "o", "i", "n", "s">> }

LangSummaries == UNION {[keys -> LangValues] : keys \in SUBSET LangKeys}

LangIdle == l_pc = "idle" /\ l_summary = <<>> /\ l_title = <<>> /\ l_url = <<>> /\ l_out = <<>>

LangInit ==
    /\ l_pc = "call"
    /\ l_summary \in LangSummaries
    /\ l_title \in LangTitles
    /\ l_url \in LangUrls
    /\ l_out = <<>>

ExtractLanguage ==
    /\ l_pc = "call"
    /\ \E order \in SetOrders :
          l_out' = extract_language(l_summary, l_title, l_url, order)
    /\ l_pc' = "done"
    /\ UNCHANGED <<l_summary, l_title, l_url, mainVars, filterVars, scoreVars, kwVars, slugVars>>

----------------------------------------------------------------------------
(* Specifications: main, and one for each function applied to its inputs. *)

Init == MainInit /\ FilterIdle /\ ScoreIdle /\ KwIdle /\ SlugIdle /\ LangIdle

Next ==
    \/ Main_Start
    \/ Main_FetchFail
    \/ Main_FetchOk
    \/ Main_ParseOk
    \/ Main_ParseFail
    \/ Main_Write

Spec == Init /\ [][Next]_vars

InitFilter == MainIdle /\ FilterInit /\ ScoreIdle /\ KwIdle /\ SlugIdle /\ LangIdle
NextFilter == FilterLinks
SpecFilter == InitFilter /\ [][NextFilter]_vars

InitScores == MainIdle /\ FilterIdle /\ ScoreInit /\ KwIdle /\ SlugIdle /\ LangIdle
NextScores == Fb_Begin \/ Fb_Row \/ Fb_Return
SpecScores == InitScores /\ [][NextScores]_vars

InitKeywords == MainIdle /\ FilterIdle /\ ScoreIdle /\ KwInit /\ SlugIdle /\ LangIdle
NextKeywords == ExtractKeywords
SpecKeywords == InitKeywords /\ [][NextKeywords]_vars

InitSlug == MainIdle /\ FilterIdle /\ ScoreIdle /\ KwIdle /\ SlugInit /\ LangIdle
NextSlug == ParseSlug
SpecSlug == InitSlug /\ [][NextSlug]_vars

InitLanguage == MainIdle /\ FilterIdle /\ ScoreIdle /\ KwIdle /\ SlugIdle /\ LangInit
NextLanguage == ExtractLanguage
SpecLanguage == InitLanguage /\ [][NextLanguage]_vars

----------------------------------------------------------------------------
(* Properties of main. *)

EventsOf(kinds) == SelectSeq(log, LAMBDA e : e.ev \in kinds)
UrlsOf(events) == [i \in 1..Len(events) |-> events[i].url]

\* C1: a fetch failure or a parse failure on one URL adds no row and never
\* stops the run: the URLs are fetched once each in the order of links, the
\* rows are those of the URLs that succeeded, in link order, and when the loop
\* is over exactly these rows are written.
C1_FailuresIsolated ==
    /\ pc = "aborted" => links = <<>> /\ log = <<>>
    /\ \A i, j \in 1..Len(links) : i < j => LexLess(links[i], links[j])
    /\ pc \in {"fetch", "parse", "done"} =>
          LET fetched == UrlsOf(EventsOf({"fetch_ok", "fetch_fail"}))
          IN  /\ fetched = SubSeq(links, 1, Len(fetched))
              /\ Len(fetched) = (IF pc = "parse" THEN idx ELSE idx - 1)
              /\ [i \in 1..Len(rows_out) |-> rows_out[i].source_url]
                    = UrlsOf(EventsOf({"parse_ok"}))
    /\ pc = "done" =>
          /\ UrlsOf(EventsOf({"fetch_ok", "fetch_fail"})) = links
          /\ Len(EventsOf({"fetch_fail", "parse_fail", "parse_ok"})) = Len(links)
          /\ output = [written |-> TRUE, rows |-> rows_out]
    /\ pc # "done" => ~output.written

\* a finished run over three links in which the first fetch failed, the second
\* page failed to parse and the third succeeded
C1_Witness ==
    /\ pc = "done"
    /\ Len(links) = 3
    /\ \E i, j, k \in 1..Len(log) :
          /\ i < j /\ j < k
          /\ log[i] = Event("fetch_fail", links[1])
          /\ log[j] = Event("parse_fail", links[2])
          /\ log[k] = Event("parse_ok", links[3])
    /\ output.rows = <<[source_url |-> links[3]]>>

\* C2: an empty filtered list aborts main before any fetch and before any
\* output; a non-empty list never aborts it.
C2_EmptyLinksFatal ==
    pc # "start" =>
        /\ links = filter_links(raw)
        /\ links = <<>> => pc = "aborted" /\ log = <<>> /\ ~output.written
        /\ links # <<>> => pc # "aborted"

\* raw links were read, none passed the filter, and main aborted
C2_Witness == pc = "aborted" /\ raw # <<>> /\ links = <<>>

\* C3: between a successful fetch and any later fetch there is a pause.
C3_PauseAfterSuccessfulFetch ==
    \A i, j \in 1..Len(log) :
        (i < j /\ log[i].ev = "fetch_ok" /\ log[j].ev \in {"fetch_ok", "fetch_fail"})
            => \E k \in (i + 1)..(j - 1) : log[k].ev = "sleep"

----------------------------------------------------------------------------
(* Properties of filter_links. *)

\* the five conditions of an interview page, as the link filter states them
MeetsAllFive(url) ==
    LET path == RStripChar(UrlPath(url), "/")
    IN  /\ url # <<>> /\ Contains(url, Str_mocks)
        /\ ~Contains(url, Str_system_design) /\ ~Contains(url, Str_behavioral)
        /\ path # Path_mocks
        /\ StartsWith(path, Path_mocks_slash)
        /\ Len(Split(path, <<"/">>)) >= 3

----------------------------------------------------------------------------
(* Properties of extract_outcome_and_scores. *)

RowLabel(r) == normalize(r.first)
RowValue(r) == clean_text(r.last)

\* the six phrases in their fixed order, each with its slot
PhraseOrder ==
    << <<Str_excited, "score_excited_to_work_with_them">>,
       <<Str_good_questions, "score_questions_quality">>,
       <<Str_helpful, "score_interviewer_helpfulness">>,
       <<Str_problem_solving, "score_problem_solving">>,
       <<Str_technical_skills, "score_technical_skills">>,
       <<Str_communication, "score_communication">> >>

\* the slot of the first phrase the label contains, "" when it contains none
FirstPhraseSlot(label) ==
    LET hits == {i \in 1..Len(PhraseOrder) : Contains(label, PhraseOrder[i][1])}
    IN  IF hits = {} THEN ""
        ELSE PhraseOrder[CHOOSE i \in hits : \A j \in hits : i <= j][2]

\* C5: one feedback row changes at most one of the seven outputs: a row with the
\* outcome label sets only the outcome, a row with "/4" fills only the slot of
\* the first matching phrase, and any other row changes no score slot.
C5_RowChangesOneOutput ==
    [][ (fb_pc = "rows" /\ fb_i' = fb_i + 1) =>
          LET r == fb_rows[fb_i]
              changed == {c \in SCORE_COLS : scores'[c] # scores[c]}
          IN  /\ Cardinality(changed) + (IF outcome' # outcome THEN 1 ELSE 0) <= 1
              /\ r.ndivs >= 2 =>
                    /\ Contains(RowLabel(r), Str_advance) => changed = {}
                    /\ Contains(RowValue(r), Str_slash4)
                          => changed \subseteq {FirstPhraseSlot(RowLabel(r))}
                    /\ (~Contains(RowValue(r), Str_slash4) \/ FirstPhraseSlot(RowLabel(r)) = "")
                          => changed = {}
      ]_vars

Permuted(rows, p) == [i \in 1..Len(rows) |-> rows[p[i]]]

\* C6: the returned outcome and scores are the same for every permutation of
\* the rows.
C6_OrderIndependent ==
    fb_pc = "done" =>
        \A p \in Permutations(1..Len(fb_rows)) :
            extract_outcome_and_scores(Permuted(fb_rows, p))
                = [outcome |-> outcome, scores |-> scores]

Outputs == SCORE_COLS \cup {"outcome"}

\* the rows of the list that write the output
Writers(rows, out) ==
    {i \in 1..Len(rows) :
        /\ rows[i].ndivs >= 2
        /\ IF out = "outcome"
           THEN Contains(RowLabel(rows[i]), Str_advance)
           ELSE /\ Contains(RowValue(rows[i]), Str_slash4)
                /\ FirstPhraseSlot(RowLabel(rows[i])) = out}

\* no two rows write different values to one output
NoConflict(rows) ==
    \A out \in Outputs : \A i, j \in Writers(rows, out) : RowValue(rows[i]) = RowValue(rows[j])

\* the value of the last row that writes the output, empty when none does
LastValue(rows, out) ==
    LET w == Writers(rows, out)
    IN  IF w = {} THEN <<>> ELSE RowValue(rows[CHOOSE i \in w : \A j \in w : j <= i])

\* C6, amended: every output holds the value of the last row that writes it, so
\* the result is the same for every permutation of a list in which no two rows
\* write different values to the same output.
C6_LastWriterWins ==
    (fb_pc = "done" /\ fb_section) =>
        /\ outcome = LastValue(fb_rows, "outcome")
        /\ \A c \in SCORE_COLS : scores[c] = LastValue(fb_rows, c)
        /\ NoConflict(fb_rows) =>
              \A p \in Permutations(1..Len(fb_rows)) :
                  extract_outcome_and_scores(Permuted(fb_rows, p))
                      = [outcome |-> outcome, scores |-> scores]

\* two rows that write different values to the same slot: the later one is kept
C6_Witness ==
    /\ fb_pc = "done"
    /\ fb_rows = <<Row_questions_3, Row_questions_2>>
    /\ ~NoConflict(fb_rows)
    /\ scores["score_questions_quality"] = <<"2", "/", "4">>

----------------------------------------------------------------------------
(* Properties of extract_jsonld_keywords. *)

\* the keyword list a block yields: its keywords split and trimmed, empty when
\* the block does not decode or has no keywords
KeywordList(b) ==
    IF b.kind # "object" THEN <<>>
    ELSE IF b.type = "str" THEN StripAll(Split(b.str, <<",">>))
    ELSE IF b.type = "list" THEN StripAll(b.items)
    ELSE <<>>

\* C7: the result is the first non-empty keyword list found across all blocks,
\* and empty only if no block yields one.
C7_FirstNonEmptyKeywords ==
    kw_pc = "done" =>
        LET good == {i \in 1..Len(kw_blocks) : KeywordList(kw_blocks[i]) # <<>>}
        IN  IF good = {} THEN kw_out = <<>>
            ELSE kw_out = KeywordList(kw_blocks[CHOOSE i \in good : \A j \in good : i <= j])

----------------------------------------------------------------------------
(* Properties of parse_slug. *)

\* C8: for the slug <company>-<alias>-<topic tokens> the language guess is the
\* alias's canonical name, the topic guess is the topic tokens joined by single
\* spaces, and the company guess is token 0 title-cased, "FAANG" for "faang".
C8_SlugCoversEveryAlias ==
    slug_pc = "done" =>
        /\ slug_out[1] = (IF LowerStr(slug_company) = Str_faang
                          THEN UpperStr(slug_company) ELSE TitleStr(slug_company))
        /\ slug_out[2] = AliasGet(slug_alias)
        /\ slug_out[3] = Join(slug_topic, <<" ">>)

----------------------------------------------------------------------------
(* Properties of extract_language. *)

\* C9: the language does not depend on the order in which the canonical names
\* are scanned.
C9_LanguageDeterministic ==
    l_pc = "done" =>
        \A order \in SetOrders : extract_language(l_summary, l_title, l_url, order) = l_out

\* C10: a summary language that equals, ignoring case, an alias token or a
\* canonical name resolves to the canonical name of that same language.
C10_SummaryLanguageExact ==
    (l_pc = "done" /\ DOMAIN l_summary # {}) =>
        LET val == IF "language" \in DOMAIN l_summary
                   THEN l_summary["language"] ELSE l_summary["programming language"]
        IN  \A i \in 1..Len(LANG_ALIASES) :
                (LowerStr(val) = LANG_ALIASES[i][1] \/ LowerStr(val) = LowerStr(LANG_ALIASES[i][2]))
                    => l_out = LANG_ALIASES[i][2]

====
